---- MODULE Spec2Model ----
(***************************************************************************)
(* A model of the Danesfield orchestration and geodetic-utility layer:     *)
(*   danesfield/gdal_utils.py  - compute_utm_zone, read_offset,            *)
(*                               gdal_bounding_box, gdal_get_utm_zone      *)
(*   tools/run_danesfield.py   - create_working_dir, classification and    *)
(*                               validation of collections, main           *)
(* Text (paths, file lines) is a sequence of symbols; a symbol is a string *)
(* that the modelled code never looks inside.  Angles and coordinates are  *)
(* integers counted in 1/Scale of a degree.                                *)
(***************************************************************************)
EXTENDS Integers, Sequences, FiniteSets, TLC

VARIABLES
    lon, lat, utm,         \* compute_utm_zone: the arguments and the outcome
    file, offset, off_out, \* read_offset: the file's lines, the offset list, the outcome
    cfg_work_dir,          \* create_working_dir: the configured work_dir ('' when unset)
    imagery_dir,           \*   the configured imagery_dir
    cwd, clock,            \*   the process's current directory; the time, as text
    dirs,                  \*   the directories that exist (resolved paths)
    wd_out,                \*   the outcome
    raster,                \* gdal_get_utm_zone: the image file and what GDAL reports of it
    bbox,                  \*   what gdal_bounding_box gave its caller
    mid,                   \*   the midpoint handed to compute_utm_zone
    zone_out,              \*   the outcome
    vectorFile,            \* ogr_get_layer: the geometry type of each layer of the file
    geometryType,          \*   the type asked for
    layer_out,             \*   the outcome
    tree,                  \* main: the files under the imagery and rpc directories
    set_order,             \*   the order in which a set of prefixes is listed
    obliquity,             \*   NITF_CSEXRA_OBLIQUITY_ANGLE of each collection's pan image
    aoi_name,              \*   config['aoi']['name']
    pc, exc,               \*   where main is; the exception it ended with
    working_dir, ntf_fpaths, info_fpaths, rpc_fpaths, prefixes,
    coll,                  \*   collection_id_to_files
    incomplete_ids,
    pos,                   \*   the position of the running loop (from 1)
    loc,                   \*   the locals that name artifacts
    lowest_angle, most_nadir_collection_id,
    calls                  \*   the stage invocations so far

utmVars == <<lon, lat, utm>>
offVars == <<file, offset, off_out>>
wdVars == <<cfg_work_dir, imagery_dir, cwd, clock, dirs, wd_out>>
boxVars == <<raster, bbox, mid, zone_out>>
layerVars == <<vectorFile, geometryType, layer_out>>
envVars == <<tree, set_order, obliquity, aoi_name>>
mainVars == <<pc, exc, working_dir, ntf_fpaths, info_fpaths, rpc_fpaths, prefixes,
              coll, incomplete_ids, pos, loc, lowest_angle, most_nadir_collection_id,
              calls>>
vars == <<lon, lat, utm, file, offset, off_out,
          cfg_work_dir, imagery_dir, cwd, clock, dirs, wd_out,
          raster, bbox, mid, zone_out,
          vectorFile, geometryType, layer_out,
          tree, set_order, obliquity, aoi_name,
          pc, exc, working_dir, ntf_fpaths, info_fpaths, rpc_fpaths, prefixes,
          coll, incomplete_ids, pos, loc, lowest_angle, most_nadir_collection_id,
          calls>>

----------------------------------------------------------------------------
(* Arithmetic of the Python and C library calls the code uses.             *)

\* int(x) of the quotient a / b (b > 0): truncation toward zero.
TruncDiv(a, b) == IF a >= 0 THEN a \div b ELSE -((-a) \div b)

\* math.fmod(a, m) for m > 0: the remainder carries the sign of a.
Fmod(a, m) == IF a >= 0 THEN a % m ELSE -((-a) % m)

----------------------------------------------------------------------------
(* compute_utm_zone(lon, lat)                                              *)

\* Coordinates are counted in 1/Scale of a degree.
Scale == 2
\* Arguments range over [-LonMax, LonMax] x [-LatMax, LatMax] degrees.
LonMax == 195
LatMax == 100

Deg(d) == d * Scale

Lons == (-Deg(LonMax))..Deg(LonMax)
Lats == (-Deg(LatMax))..Deg(LatMax)

\* lon = math.fmod(lon + 180, 360) - 180
NormLon(l) == Fmod(l + Deg(180), Deg(360)) - Deg(180)
\* lat = math.fmod(lat + 90, 180) - 90
NormLat(l) == Fmod(l + Deg(90), Deg(180)) - Deg(90)

Hemisphere(nlat) == IF nlat > 0 THEN "N" ELSE "S"

\* zone = int((int(lon) + 180) / 6 + 1): (k + 180) / 6 + 1 = (k + 186) / 6.
GeneralZone(nlon) == TruncDiv(TruncDiv(nlon, Scale) + 180 + 6, 6)

\* The zone assigned to normalized coordinates; 0 is "invalid UTM zone".
ZoneOf(nlon, nlat) ==
    IF Deg(-80) <= nlat /\ nlat <= Deg(84)
    THEN IF nlat >= Deg(72) /\ 0 <= nlon /\ nlon < Deg(42)
         THEN IF nlon < Deg(9) THEN 31
              ELSE IF nlon < Deg(21) THEN 33
              ELSE IF nlon < Deg(33) THEN 35
              ELSE 37
         ELSE IF Deg(56) <= nlat /\ nlat < Deg(64) /\ 0 <= nlon /\ nlon < Deg(12)
         THEN IF nlon < Deg(3) THEN 31 ELSE 32
         ELSE GeneralZone(nlon)
    ELSE 0

compute_utm_zone(l, p) ==
    LET nlon == NormLon(l)
        nlat == NormLat(p)
        zone == ZoneOf(nlon, nlat)
    IN  IF zone = 0
        THEN [kind |-> "raise", exc |-> "RuntimeError", msg |-> "Invalid UTM"]
        ELSE [kind |-> "return", zone |-> zone, hemisphere |-> Hemisphere(nlat)]

Pending == [kind |-> "pending"]

Idle == [kind |-> "idle"]

UtmIdle == lon = 0 /\ lat = 0 /\ utm = Idle

ComputeUtmZone ==
    /\ utm = Pending
    /\ utm' = compute_utm_zone(lon, lat)
    /\ UNCHANGED <<lon, lat>>
    /\ UNCHANGED <<offVars, wdVars, boxVars, envVars, mainVars, layerVars>>

----------------------------------------------------------------------------
(* Text: sequences of symbols.                                             *)

Digit == {"0", "1", "2", "3", "4", "5", "6", "7", "8", "9"}

DigitVal(c) ==
    CASE c = "0" -> 0 [] c = "1" -> 1 [] c = "2" -> 2 [] c = "3" -> 3
      [] c = "4" -> 4 [] c = "5" -> 5 [] c = "6" -> 6 [] c = "7" -> 7
      [] c = "8" -> 8 [] c = "9" -> 9

\* The symbol at position i of s; "" past either end.
At(s, i) == IF i \in 1..Len(s) THEN s[i] ELSE ""

\* s[a..b-1]
Slice(s, a, b) == [k \in 1..(IF b > a THEN b - a ELSE 0) |-> s[a + k - 1]]

\* Does s hold the symbols of lit from position p on?
StartsAt(s, p, lit) == \A k \in 1..Len(lit) : At(s, p + k - 1) = lit[k]

\* The first position >= p of s that holds no digit (Len(s) + 1 at the end).
DigitsEnd(s, p) ==
    CHOOSE i \in p..(Len(s) + 1) :
        /\ At(s, i) \notin Digit
        /\ \A j \in p..(i - 1) : s[j] \in Digit

\* The number written by the digits s[a..b-1]; 0 for none.
RECURSIVE DigitsVal(_, _, _)
DigitsVal(s, a, b) ==
    IF b <= a THEN 0 ELSE DigitsVal(s, a, b - 1) * 10 + DigitVal(s[b - 1])

RECURSIVE Pow10(_)
Pow10(n) == IF n <= 0 THEN 1 ELSE 10 * Pow10(n - 1)

\* A decimal number m * 10^e, m without trailing zeros: the value of a float
\* literal, exact (two literals denote the same float iff they agree here,
\* within the digits a double holds).
RECURSIVE Dec(_, _)
Dec(m, e) ==
    IF m = 0 THEN [m |-> 0, e |-> 0]
    ELSE IF m % 10 = 0 THEN Dec(m \div 10, e + 1)
    ELSE [m |-> m, e |-> e]

Zero == Dec(0, 0)

\* The regular expression [-+]?(\d+(\.\d*)?|\.\d+)([eE][-+]?\d+)? matched
\* (greedily) at position p of s, part by part.  The result of each part is
\* handed to the next: neg, the sign; p1..d1-1, the integer digits; dot, whether
\* a "." follows them; f0..f1-1, the fraction digits; mEnd, the position after
\* the mantissa (0 when there is none); e0..e1-1, the exponent digits.

\* ([eE][-+]?\d+)?: the exponent is taken only when it has a digit.
FloatExponent(s, neg, mant, fLen, mEnd, e0, e1) ==
    LET hasE == mEnd # 0 /\ At(s, mEnd) \in {"e", "E"} /\ e1 > e0
        eVal == IF hasE
                THEN (IF At(s, mEnd + 1) = "-" THEN -1 ELSE 1) * DigitsVal(s, e0, e1)
                ELSE 0
    IN  [end   |-> IF hasE THEN e1 ELSE mEnd,
         value |-> IF mEnd = 0 THEN [m |-> 0, e |-> 0]
                   ELSE Dec((IF neg THEN -1 ELSE 1) * mant, eVal - fLen)]

\* The mantissa's end and value, fLen digits of it after the point.
FloatMantissa(s, neg, mant, fLen, mEnd) ==
    FloatExponent(s, neg, mant, fLen, mEnd,
                  IF At(s, mEnd + 1) \in {"-", "+"} THEN mEnd + 2 ELSE mEnd + 1,
                  DigitsEnd(s, IF At(s, mEnd + 1) \in {"-", "+"}
                               THEN mEnd + 2 ELSE mEnd + 1))

\* (\d+(\.\d*)?|\.\d+): digits with an optional point and fraction, or a point
\* and at least one digit.
FloatFraction(s, neg, p1, d1, dot, f0, f1) ==
    FloatMantissa(s, neg,
                  IF dot /\ (d1 > p1 \/ f1 > f0)
                  THEN DigitsVal(s, p1, d1) * Pow10(f1 - f0) + DigitsVal(s, f0, f1)
                  ELSE DigitsVal(s, p1, d1),
                  IF dot /\ (d1 > p1 \/ f1 > f0) THEN f1 - f0 ELSE 0,
                  IF d1 > p1 THEN (IF dot THEN f1 ELSE d1)
                  ELSE IF dot /\ f1 > f0 THEN f1 ELSE 0)

FloatPoint(s, neg, p1, d1, dot, f0) ==
    FloatFraction(s, neg, p1, d1, dot, f0, IF dot THEN DigitsEnd(s, f0) ELSE f0)

FloatDigits(s, neg, p1, d1) ==
    FloatPoint(s, neg, p1, d1,
               IF d1 > p1 THEN At(s, d1) = "." ELSE At(s, p1) = ".",
               IF d1 > p1 THEN d1 + 1 ELSE p1 + 1)

\* [-+]?
FloatSign(s, neg, p1) == FloatDigits(s, neg, p1, DigitsEnd(s, p1))

\* Where the match ends and its value; end = 0 when there is no match.
FloatAt(s, p) ==
    FloatSign(s, At(s, p) = "-", IF At(s, p) \in {"-", "+"} THEN p + 1 ELSE p)

IsSpace(c) == c \in {" ", "\n", "\t"}

\* str.strip(): s without leading and trailing whitespace.
Strip(s) ==
    LET first == CHOOSE i \in 1..(Len(s) + 1) :
                     /\ (i = Len(s) + 1 \/ ~IsSpace(s[i]))
                     /\ \A j \in 1..(i - 1) : IsSpace(s[j])
        last  == CHOOSE i \in 0..Len(s) :
                     /\ (i = 0 \/ ~IsSpace(s[i]))
                     /\ \A j \in (i + 1)..Len(s) : IsSpace(s[j])
    IN  Slice(s, first, last + 1)

\* float(text): the value of a text that is wholly one float literal, after
\* stripping whitespace; ValueError otherwise.
FullMatch(t, m) ==
    IF Len(t) > 0 /\ m.end = Len(t) + 1
    THEN [ok |-> TRUE, value |-> m.value]
    ELSE [ok |-> FALSE, value |-> Zero]

FloatOf(t) == FullMatch(t, FloatAt(t, 1))

PyFloat(text) == FloatOf(Strip(text))

----------------------------------------------------------------------------
(* read_offset(fileName, offset)                                           *)

\* f.readline() for the n-th time on a freshly opened file: '' past the end.
ReadLine(f, n) == IF n \in 1..Len(f) THEN f[n] ELSE <<>>

axes == <<"x", "y", "z">>

\* As reFloat, with reFloatList[1] left at the first axis for every line.
reFloatFirstAxis(i, line) ==
    LET lit == <<"#", axes[1], " ", "offset:", " ">>
        m   == FloatAt(line, Len(lit) + 1)
    IN  IF StartsAt(line, 1, lit) /\ m.end # 0
        THEN [matched |-> TRUE, group |-> Slice(line, Len(lit) + 1, m.end)]
        ELSE [matched |-> FALSE, group |-> <<>>]

\* reFloat for axis number i: "#" axis " offset: " and a float, matched at the
\* start of the line (re.match).  group(1) is the float's text.
\* A match record: [matched, group].
reFloat(i, line) ==
    LET lit == <<"#", axes[i], " ", "offset:", " ">>
        m   == FloatAt(line, Len(lit) + 1)
    IN  IF StartsAt(line, 1, lit) /\ m.end # 0
        THEN [matched |-> TRUE, group |-> Slice(line, Len(lit) + 1, m.end)]
        ELSE [matched |-> FALSE, group |-> <<>>]

\* The position of the first "," of s at or after p; 0 when there is none.
NextComma(s, p) ==
    IF \E i \in p..Len(s) : s[i] = ","
    THEN CHOOSE i \in p..Len(s) : s[i] = "," /\ \A j \in p..(i - 1) : s[j] # ","
    ELSE 0

\* "[^,]*, " five times from position p; the texts of the last three are the
\* groups.  [^,]* stops at the first comma, which a space must follow.
\* ok, the groups, and the position after the fifth ", ".
RECURSIVE CSFields(_, _, _, _)
CSFields(s, p, k, groups) ==
    IF k = 0 THEN [ok |-> TRUE, groups |-> groups, next |-> p]
    ELSE LET c == NextComma(s, p)
         IN  IF c = 0 \/ At(s, c + 1) # " "
             THEN [ok |-> FALSE, groups |-> groups, next |-> p]
             ELSE CSFields(s, c + 2, k - 1,
                           IF k <= 3 THEN Append(groups, Slice(s, p, c)) ELSE groups)

\* ".*\].*}\n" at position p: "." matches every symbol but the newline.
CSTail(s, p) ==
    \E a \in p..Len(s) : \E b \in (a + 1)..Len(s) :
        /\ s[a] = "]" /\ s[b] = "}" /\ At(s, b + 1) = "\n"
        /\ \A j \in p..b : s[j] # "\n"

\* reCS: "# coordinate_system: {.* \[" then the fields and the tail, matched at
\* the start of the line.  The first ".*" is greedy: the last " [" after which
\* the rest matches is taken.
reCS(line) ==
    LET lit  == <<"#", " ", "coordinate_system:", " ", "{">>
        h    == Len(lit) + 1
        Rest(p) == CSFields(line, p + 2, 5, <<>>)
        good == {p \in h..Len(line) :
                    /\ line[p] = " " /\ At(line, p + 1) = "["
                    /\ \A j \in h..(p - 1) : line[j] # "\n"
                    /\ Rest(p).ok
                    /\ CSTail(line, Rest(p).next)}
        best == CHOOSE p \in good : \A q \in good : q <= p
    IN  IF StartsAt(line, 1, lit) /\ good # {}
        THEN [matched |-> TRUE, groups |-> Rest(best).groups]
        ELSE [matched |-> FALSE, groups |-> <<>>]

\* offset[0] = offset[1] = offset[2] = 0.0
ZeroOffsets(before) == <<Zero, Zero, Zero>>

\* The first loop over the first three lines: offset[i] is stored for each
\* leading line that matches its axis, the first line that does not match
\* breaks.  The list as left, and the value of i when the loop ends (0-based,
\* as in the code).
FirstPass(f, off) ==
    LET m1 == reFloat(1, ReadLine(f, 1))
        m2 == reFloat(2, ReadLine(f, 2))
        m3 == reFloat(3, ReadLine(f, 3))
        v(m) == PyFloat(m.group).value
    IN  IF ~m1.matched THEN [offset |-> off, i |-> 0]
        ELSE IF ~m2.matched THEN [offset |-> <<v(m1), off[2], off[3]>>, i |-> 1]
        ELSE IF ~m3.matched THEN [offset |-> <<v(m1), v(m2), off[3]>>, i |-> 2]
        ELSE [offset |-> <<v(m1), v(m2), v(m3)>>, i |-> 2]

\* Is the second case entered: "if i == 0".
UsesLine8(i) == i = 0

\* The second case: line 8 against reCS; float() of each group in turn, the
\* first that is no float raising ValueError with the earlier ones stored.
SecondPass(f, off) ==
    LET m == reCS(ReadLine(f, 8))
        g(k) == PyFloat(m.groups[k])
    IN  IF ~m.matched THEN [offset |-> off, exc |-> "none"]
        ELSE IF ~g(1).ok THEN [offset |-> off, exc |-> "ValueError"]
        ELSE IF ~g(2).ok
             THEN [offset |-> <<g(1).value, off[2], off[3]>>, exc |-> "ValueError"]
        ELSE IF ~g(3).ok
             THEN [offset |-> <<g(1).value, g(2).value, off[3]>>, exc |-> "ValueError"]
        ELSE [offset |-> <<g(1).value, g(2).value, g(3).value>>, exc |-> "none"]

\* The whole function: the offset list as it is left, the exception raised
\* ("none" when it returns), and whether line 8 was read.
read_offset(f, before) ==
    LET first == FirstPass(f, ZeroOffsets(before))
        second == SecondPass(f, first.offset)
    IN  IF UsesLine8(first.i)
        THEN [offset |-> second.offset, exc |-> second.exc, line8 |-> TRUE]
        ELSE [offset |-> first.offset, exc |-> "none", line8 |-> FALSE]

ReadOffset ==
    /\ off_out = Pending
    /\ LET r == read_offset(file, offset)
       IN  /\ offset' = r.offset
           /\ off_out' = [kind |-> IF r.exc = "none" THEN "return" ELSE "raise",
                          exc |-> r.exc, line8 |-> r.line8]
    /\ UNCHANGED file
    /\ UNCHANGED <<utmVars, wdVars, boxVars, envVars, mainVars, layerVars>>

----------------------------------------------------------------------------
(* The files read_offset is run on.                                        *)

\* A file has at most MaxLines lines.
MaxLines == 9

\* Float literals and the numbers they denote: 7, 12.5, -.5e2 = -50.
FloatLits ==
    { [text |-> <<"7">>, value |-> Dec(7, 0)],
      [text |-> <<"1", "2", ".", "5">>, value |-> Dec(125, -1)],
      [text |-> <<"-", ".", "5", "e", "2">>, value |-> Dec(-5, 1)] }

FloatTexts == {l.text : l \in FloatLits}

\* "#x offset: <t>" and, with a space after the "#", "# x offset: <t>".
OffsetLine(axis, spaced, t) ==
    <<"#">> \o (IF spaced THEN <<" ">> ELSE <<>>)
            \o <<axis, " ", "offset:", " ">> \o t \o <<"\n">>

Junk == <<"p", "l", "y", "\n">>

\* '# coordinate_system: {params: [wgs84, UTM16N, <x>, <y>, <z>, 0, 0], type: EPSG}'
CSLine(x, y, z) ==
    <<"#", " ", "coordinate_system:", " ", "{", "params:", " ", "[",
      "wgs84", ",", " ", "UTM16N", ",", " ">>
      \o x \o <<",", " ">> \o y \o <<",", " ">> \o z
      \o <<",", " ", "0", ",", " ", "0", "]", ",", " ", "type:", " ", "EPSG", "}", "\n">>

\* A field that is no number.
Word == <<"a", "b">>

HeaderLines(axis) ==
    {OffsetLine(axis, sp, t) : sp \in BOOLEAN, t \in FloatTexts} \cup {Junk}

Line8s ==
    {CSLine(x, y, z) : x \in FloatTexts \cup {Word}, y \in {<<"8">>, Word},
                       z \in {<<"9", ".">>, <<>>}}
    \cup {Junk,
          \* no closing bracket
          <<"#", " ", "coordinate_system:", " ", "{", "params:", " ", "[",
            "wgs84", ",", " ", "UTM16N", ",", " ", "7", ",", " ", "8", ",", " ",
            "9", ",", " ", "0", "}", "\n">>}

\* Lines 1..3 and 8 chosen, the others filler, cut to n lines.
FileOf(l1, l2, l3, l8, n) ==
    [k \in 1..n |-> CASE k = 1 -> l1 [] k = 2 -> l2 [] k = 3 -> l3 [] k = 8 -> l8
                      [] OTHER -> Junk]

Files ==
    {FileOf(l1, l2, l3, l8, n) :
        l1 \in HeaderLines("x") \cup {OffsetLine("y", FALSE, <<"7">>)},
        l2 \in HeaderLines("y"), l3 \in HeaderLines("z"),
        l8 \in Line8s, n \in {0, 1, 2, 3, 7} \cup 8..MaxLines}

\* What the caller's offset list holds before the call.
PriorOffsets == { <<Zero, Zero, Zero>>, <<Dec(4, 0), Dec(5, 0), Dec(6, 0)>> }

OffIdle == file = <<>> /\ offset = <<>> /\ off_out = Idle

----------------------------------------------------------------------------
(* Paths.  The modelled file system holds directories and no symbolic      *)
(* links, so os.path.realpath makes a path absolute and normalizes it.     *)

\* The components of a path text, "" for each empty one: s.split('/').
RECURSIVE SplitSlash(_, _, _)
SplitSlash(s, k, acc) ==
    IF k > Len(s) THEN acc
    ELSE IF s[k] = "/" THEN SplitSlash(s, k + 1, Append(acc, <<>>))
    ELSE SplitSlash(s, k + 1,
                    [acc EXCEPT ![Len(acc)] = Append(acc[Len(acc)], s[k])])

\* Empty and "." components dropped, ".." removing the component before it.
RECURSIVE Normalize(_, _, _)
Normalize(cs, k, acc) ==
    IF k > Len(cs) THEN acc
    ELSE IF cs[k] = <<>> \/ cs[k] = <<".">> THEN Normalize(cs, k + 1, acc)
    ELSE IF cs[k] = <<"..">>
         THEN Normalize(cs, k + 1,
                        IF acc = <<>> THEN acc ELSE SubSeq(acc, 1, Len(acc) - 1))
    ELSE Normalize(cs, k + 1, Append(acc, cs[k]))

\* The text of the absolute path with these components.
RECURSIVE PathText(_)
PathText(cs) ==
    IF cs = <<>> THEN <<"/">>
    ELSE IF Len(cs) = 1 THEN <<"/">> \o cs[1]
    ELSE PathText(SubSeq(cs, 1, Len(cs) - 1)) \o <<"/">> \o cs[Len(cs)]

IsAbs(path) == At(path, 1) = "/"

\* The components of os.path.realpath(path) in a process whose current
\* directory is c.
RealComps(path, c) ==
    Normalize(SplitSlash(IF IsAbs(path) THEN path ELSE c \o <<"/">> \o path,
                         1, <<<<>>>>), 1, <<>>)

\* os.path.realpath(path)
RealPath(path, c) == PathText(RealComps(path, c))

\* a in b, for strings: a occurs in b as a contiguous run.
Contains(b, a) == \E k \in 1..(Len(b) - Len(a) + 1) : StartsAt(b, k, a)

\* os.path.join(a, b)
PathJoin(a, b) ==
    IF IsAbs(b) THEN b
    ELSE IF a = <<>> \/ a[Len(a)] = "/" THEN a \o b
    ELSE a \o <<"/">> \o b

----------------------------------------------------------------------------
(* create_working_dir(working_dir, imagery_dir)                            *)

\* 'danesfield-' + str(datetime.datetime.now().timestamp()).split('.')[0]
DefaultWorkingDir(now) == <<"danesfield-", now>>

\* os.path.isdir(path)
IsDir(path, c, ds) == RealPath(path, c) \in ds

\* The test that rejects the working directory:
\* os.path.realpath(imagery_dir) in os.path.realpath(working_dir)
IsSubdirectory(working, imagery, c) ==
    Contains(RealPath(working, c), RealPath(imagery, c))

\* The outcome (the value returned, or the exception raised) and the
\* directories that exist afterwards.  os.mkdir needs the parent to exist.
create_working_dir(work_dir, imagery, c, now, ds) ==
    LET wd     == IF work_dir = <<>> THEN DefaultWorkingDir(now) ELSE work_dir
        real   == RealComps(wd, c)
        parent == PathText(SubSeq(real, 1, Len(real) - 1))
        made   == IF IsDir(wd, c, ds) THEN ds ELSE ds \cup {PathText(real)}
    IN  IF ~IsDir(wd, c, ds) /\ parent \notin ds
        THEN [kind |-> "raise", exc |-> "FileNotFoundError", value |-> <<>>, dirs |-> ds]
        ELSE IF IsSubdirectory(wd, imagery, c)
        THEN [kind |-> "raise", exc |-> "ValueError", value |-> <<>>, dirs |-> made]
        ELSE [kind |-> "return", exc |-> "none", value |-> wd, dirs |-> made]

CreateWorkingDir ==
    /\ wd_out = Pending
    /\ LET r == create_working_dir(cfg_work_dir, imagery_dir, cwd, clock, dirs)
       IN  /\ wd_out' = [kind |-> r.kind, exc |-> r.exc, value |-> r.value]
           /\ dirs' = r.dirs
    /\ UNCHANGED <<cfg_work_dir, imagery_dir, cwd, clock>>
    /\ UNCHANGED <<utmVars, offVars, boxVars, envVars, mainVars, layerVars>>

----------------------------------------------------------------------------
(* The configurations create_working_dir is run on.                        *)

\* Directory paths have at most MaxDepth components.
MaxDepth == 3

DirNames == { <<"d">>, <<"i">>, <<"i", "_", "w">>, <<"w">> }

CompSeqs(n) == UNION {[1..k -> DirNames] : k \in 0..n}

AbsPaths(n) == {PathText(cs) : cs \in CompSeqs(n)}

\* Relative paths: the absolute ones without the leading "/".
RelPaths(n) == {Tail(PathText(cs)) : cs \in CompSeqs(n) \ {<<>>}}

\* Paths that realpath rewrites: a trailing slash, a "..".
OddPaths == { <<"/", "d", "/", "i", "/">>, <<"/", "d", "/", "i", "/", "..", "/", "w">> }

\* A directory and all the directories above it.
Ancestors(cs) == {PathText(SubSeq(cs, 1, k)) : k \in 0..Len(cs)}

WdIdle ==
    /\ cfg_work_dir = <<>> /\ imagery_dir = <<>> /\ cwd = <<>> /\ clock = ""
    /\ dirs = {} /\ wd_out = Idle

----------------------------------------------------------------------------
(* gdal_bounding_box(raster, outProj) and gdal_get_utm_zone(file_name)     *)
(* A raster is what GDAL reports of an image file: whether it opens, its   *)
(* projection ("" when it has none), its geotransform, the geotransform    *)
(* gdal.GCPsToGeoTransform derives from its ground-control points (None    *)
(* when it derives none) and its size.  The rasters modelled are           *)
(* georeferenced in WGS84 longitude and latitude, which the reprojection   *)
(* to '+proj=longlat +datum=WGS84' leaves as they are.                     *)

None == [none |-> TRUE]

Min4(a) == CHOOSE m \in {a[k] : k \in 1..4} : \A k \in 1..4 : m <= a[k]
Max4(a) == CHOOSE m \in {a[k] : k \in 1..4} : \A k \in 1..4 : m >= a[k]

\* The corner coordinates from the six coefficients, and their envelope
\* [minX, minY, maxX, maxY].
CornerBox(transform, xsize, ysize) ==
    LET lines  == <<0, 0, ysize, ysize>>
        pixels == <<0, xsize, xsize, 0>>
        arrayX == [k \in 1..4 |-> transform[1] + pixels[k] * transform[2]
                                               + lines[k] * transform[3]]
        arrayY == [k \in 1..4 |-> transform[4] + pixels[k] * transform[5]
                                               + lines[k] * transform[6]]
    IN  <<Min4(arrayX), Min4(arrayY), Max4(arrayX), Max4(arrayY)>>

\* As gdal_bounding_box, without the test for a missing geotransform: the
\* corner arithmetic on None raises TypeError.
gdal_bounding_box_unchecked(r) ==
    LET transform == IF r.projection # "" THEN r.geotransform ELSE r.gcp_transform
    IN  IF transform = None
        THEN [kind |-> "raise", exc |-> "TypeError", value |-> None]
        ELSE [kind |-> "return",
              value |-> [none |-> FALSE, box |-> CornerBox(transform, r.xsize, r.ysize)]]

\* What the function gives its caller: the box, or None when the raster has
\* no projection and no geotransform comes from its ground-control points.
gdal_bounding_box(r) ==
    LET transform == IF r.projection # "" THEN r.geotransform ELSE r.gcp_transform
    IN  IF r.projection = "" /\ transform = None
        THEN [kind |-> "return", value |-> None]
        ELSE [kind |-> "return",
              value |-> [none |-> FALSE, box |-> CornerBox(transform, r.xsize, r.ysize)]]

\* (a + b) / 2, for a sum that is even.
Midpoint(a, b) == (a + b) \div 2

\* The outcome, with what gdal_bounding_box gave and the midpoint computed
\* (None when the function did not get that far).
gdal_get_utm_zone(r) ==
    LET got == gdal_bounding_box(r)
        b   == got.value.box
        m   == <<Midpoint(b[1], b[3]), Midpoint(b[2], b[4])>>
    IN  IF ~r.opens
        THEN [bbox |-> Idle, mid |-> None, out |-> [kind |-> "raise", exc |-> "OSError"]]
        ELSE IF got.kind = "raise"
        THEN [bbox |-> got, mid |-> None, out |-> [kind |-> "raise", exc |-> got.exc]]
        ELSE IF got.value = None
        \* left, bottom, right, top = None
        THEN [bbox |-> got, mid |-> None, out |-> [kind |-> "raise", exc |-> "TypeError"]]
        ELSE [bbox |-> got, mid |-> [none |-> FALSE, point |-> m],
              out |-> compute_utm_zone(m[1], m[2])]

GdalGetUtmZone ==
    /\ zone_out = Pending
    /\ LET r == gdal_get_utm_zone(raster)
       IN  bbox' = r.bbox /\ mid' = r.mid /\ zone_out' = r.out
    /\ UNCHANGED raster
    /\ UNCHANGED <<utmVars, offVars, wdVars, envVars, mainVars, layerVars>>

\* Rasters are at most MaxRasterSize pixels wide and high.
MaxRasterSize == 4

RasterSizes == {n \in 1..MaxRasterSize : n % 2 = 0}

\* North-up geotransforms, one degree to the pixel, the origin on whole degrees.
Geotransforms ==
    {<<Deg(x), Deg(1), 0, Deg(y), 0, Deg(-1)>> :
        x \in {d \in (-LonMax)..LonMax : d % 15 = 0},
        y \in {d \in (-LatMax)..LatMax : d % 10 = 0}}

Rasters ==
    [opens : BOOLEAN, projection : {"", "WGS84"}, geotransform : Geotransforms,
     gcp_transform : {None}, xsize : RasterSizes, ysize : RasterSizes]
    \cup {[opens |-> TRUE, projection |-> "", geotransform |-> <<0, 1, 0, 0, 0, 1>>,
           gcp_transform |-> g, xsize |-> x, ysize |-> y] :
              g \in Geotransforms, x \in RasterSizes, y \in RasterSizes}

BoxIdle == raster = Idle /\ bbox = Idle /\ mid = None /\ zone_out = Idle

----------------------------------------------------------------------------
(* ogr_get_layer(vectorFile, geometryType)                                 *)

\* The for loop: each layer from index i (0-based) on is fetched and its type
\* compared, a match breaks.  The loop variable and the layer as the loop
\* leaves them; bound is FALSE while no pass has assigned them.
RECURSIVE LayerLoop(_, _, _, _)
LayerLoop(types, wanted, i, last) ==
    IF i >= Len(types) THEN last
    ELSE IF types[i + 1] = wanted
    THEN [bound |-> TRUE, i |-> i, layer |-> i + 1]
    ELSE LayerLoop(types, wanted, i + 1, [bound |-> TRUE, i |-> i, layer |-> i + 1])

\* The test after the loop, "if i == layerCount", as written.
NoLayerFound(i, layerCount) == i = layerCount

\* The whole function.  A layer is named by its position in the file (from 1).
\* With no layer the loop never assigns i, and reading it raises
\* UnboundLocalError.
ogr_get_layer(types, wanted) ==
    LET layerCount == Len(types)
        after == LayerLoop(types, wanted, 0, [bound |-> FALSE, i |-> 0, layer |-> 0])
    IN  IF ~after.bound
        THEN [kind |-> "raise", exc |-> "UnboundLocalError", layer |-> 0]
        ELSE IF NoLayerFound(after.i, layerCount)
        THEN [kind |-> "raise", exc |-> "RuntimeError", layer |-> 0]
        ELSE [kind |-> "return", exc |-> "none", layer |-> after.layer]

OgrGetLayer ==
    /\ layer_out = Pending
    /\ layer_out' = ogr_get_layer(vectorFile, geometryType)
    /\ UNCHANGED <<vectorFile, geometryType>>
    /\ UNCHANGED <<utmVars, offVars, wdVars, boxVars, envVars, mainVars>>

\* A vector file has at most MaxLayers layers.
MaxLayers == 3

GeomTypes == {"wkbPoint", "wkbLineString", "wkbPolygon"}

VectorFiles == UNION {[1..n -> GeomTypes] : n \in 0..MaxLayers}

LayerIdle == vectorFile = <<>> /\ geometryType = "" /\ layer_out = Idle

----------------------------------------------------------------------------
(* tools/run_danesfield.py: file names and their classification.           *)

\* Collection identifiers: two digits, three capitals, eight digits.
Ids == {"01JAN15000001", "02FEB15000002", "03MAR15000003"}

\* The modality markers of a file name.
Marker(modality) ==
    CASE modality = "pan" -> "-P1BS-" [] modality = "msi" -> "-M1BS-"
      [] modality = "swir" -> "-A1BS-"

Modalities == {"pan", "msi", "swir"}

\* str.lower() of a file extension.
Lower(sym) ==
    CASE sym = "NTF" -> "ntf" [] sym = "TAR" -> "tar" [] sym = "RPC" -> "rpc"
      [] OTHER -> sym

\* file.lower().endswith('.' + ext)
EndsWithExt(name, ext) ==
    Len(name) >= 2 /\ name[Len(name) - 1] = "." /\ Lower(name[Len(name)]) = ext

\* sym in fpath, for a marker or an identifier.
Mentions(fpath, sym) == \E n \in 1..Len(fpath) : fpath[n] = sym

\* prefix_regex.search(fpath): the first identifier that a "-" follows (every
\* marker starts with one), without the "-"; "" when there is none.
PrefixOf(fpath) ==
    LET hits == {n \in 1..Len(fpath) :
                    fpath[n] \in Ids /\ At(fpath, n + 1) \in {Marker(m) : m \in Modalities}}
    IN  IF hits = {} THEN ""
        ELSE fpath[CHOOSE n \in hits : \A h \in hits : n <= h]

\* The position of the last occurrence of sym in s; 0 when there is none.
LastIndex(s, sym) ==
    IF \E n \in 1..Len(s) : s[n] = sym
    THEN CHOOSE n \in 1..Len(s) : s[n] = sym /\ \A j \in (n + 1)..Len(s) : s[j] # sym
    ELSE 0

\* os.path.split(fpath)[1]
Basename(fpath) == Slice(fpath, LastIndex(fpath, "/") + 1, Len(fpath) + 1)

\* os.path.splitext(name)[0], for a name with an extension.
Stem(name) ==
    IF LastIndex(name, ".") > 1 THEN Slice(name, 1, LastIndex(name, ".")) ELSE name

\* A dict entry added or replaced: d[key] = value.
Put(d, key, value) == [x \in DOMAIN d \cup {key} |-> IF x = key THEN value ELSE d[x]]

EmptyDict == [x \in {} |-> <<>>]

\* The record main makes for a collection.
NewRecord ==
    [pan |-> EmptyDict, pansharpened_fpath |-> <<>>, rgb_fpath |-> <<>>,
     msi |-> EmptyDict, swir |-> EmptyDict, angle |-> -1]

\* The modality a path is filed under: the first marker of the if/elif chain
\* it mentions; "" when it mentions none.
ModalityOf(fpath) ==
    IF Mentions(fpath, "-P1BS-") THEN "pan"
    ELSE IF Mentions(fpath, "-M1BS-") THEN "msi"
    ELSE IF Mentions(fpath, "-A1BS-") THEN "swir"
    ELSE ""

\* classify_fpaths(prefix, fpaths, id_to_files, file_type), on the record of
\* the prefix: fpaths[n..] filed in turn, a later path replacing an earlier.
RECURSIVE classify_fpaths(_, _, _, _, _)
classify_fpaths(prefix, fpaths, n, rec, file_type) ==
    IF n > Len(fpaths) THEN rec
    ELSE LET fpath == fpaths[n]
             m == ModalityOf(fpath)
         IN  classify_fpaths(prefix, fpaths, n + 1,
                 IF Mentions(fpath, prefix) /\ m # ""
                 THEN [rec EXCEPT ![m] = Put(rec[m], file_type, fpath)]
                 ELSE rec,
                 file_type)

\* As ensure_complete_modality, the rpc never required.
ensure_complete_modality_no_rpc(modality_dict, require_rpc) ==
    \A key \in {"image", "info"} : key \in DOMAIN modality_dict

\* keys = ['image', 'info'] (+ ['rpc']); all(key in modality_dict for key in keys)
ensure_complete_modality(modality_dict, require_rpc) ==
    LET keys == {"image", "info"} \cup (IF require_rpc THEN {"rpc"} ELSE {})
    IN  \A key \in keys : key \in DOMAIN modality_dict

\* The completeness test of main: pan and msi, each with its rpc.
Complete(rec) ==
    /\ ensure_complete_modality(rec.pan, TRUE)
    /\ ensure_complete_modality(rec.msi, TRUE)

\* The paths a walk of the root collects: the files with the extension, in
\* the order the walk lists them.
RECURSIVE SelectPaths(_, _, _)
SelectPaths(seq, root, ext) ==
    IF seq = <<>> THEN <<>>
    ELSE LET rest == SelectPaths(Tail(seq), root, ext)
         IN  IF Head(seq).root = root /\ EndsWithExt(Head(seq).path, ext)
             THEN <<Head(seq).path>> \o rest ELSE rest

\* list(prefixes): the members of the set, in the order the set lists them.
RECURSIVE SelectIds(_, _)
SelectIds(seq, members) ==
    IF seq = <<>> THEN <<>>
    ELSE IF Head(seq) \in members THEN <<Head(seq)>> \o SelectIds(Tail(seq), members)
    ELSE SelectIds(Tail(seq), members)

Range(seq) == {seq[n] : n \in 1..Len(seq)}

----------------------------------------------------------------------------
(* main(config_fpath), step by step.  A stage is an external collaborator: *)
(* a call of a stage's main returns or raises; subprocess.run returns the  *)
(* exit status of gdal_pansharpen.py, or raises when it cannot start it.   *)

\* float('inf')
Inf == [inf |-> TRUE, v |-> 0]
Num(n) == [inf |-> FALSE, v |-> n]

\* angle <= lowest_angle: the last of the most nadir collections would win.
IsLowerOrEqual(angle, lowest) == lowest.inf \/ angle <= lowest.v

\* angle < lowest_angle
IsLower(angle, lowest) == lowest.inf \/ angle < lowest.v

\* The locals of main that name artifacts, unset so far.
NoLocals ==
    [dsm_file |-> <<>>, dtm_file |-> <<>>, most_nadir_pan_fpath |-> <<>>,
     most_nadir_rgb_fpath |-> <<>>, ndvi_output_fpath |-> <<>>,
     threshold_output_mask_fpath |-> <<>>, output_dsm |-> <<>>, output_cls |-> <<>>]

\* An invocation of a stage: the stage, the collection and modality it is run
\* for ("" for none), the artifact paths it is told to write, and whether it
\* succeeded.
Invocation(stage, id, modality, outputs) ==
    [stage |-> stage, id |-> id, modality |-> modality, outputs |-> outputs, ok |-> TRUE]

\* The artifact names of main.
DsmName(aoi) == <<aoi, "_P3D_DSM.tif">>
DtmName(aoi) == <<aoi, "_DTM.tif">>
\* As OrthoName, the extension of the source file kept.
OrthoNameWithExtension(ntf_fpath) == Basename(ntf_fpath) \o <<"_ortho.tif">>

\* '{}_ortho.tif'.format(os.path.splitext(os.path.split(ntf_fpath)[1])[0])
OrthoName(ntf_fpath) == Stem(Basename(ntf_fpath)) \o <<"_ortho.tif">>
PansharpenedName(collection_id) == <<collection_id, "_ortho_pansharpened.tif">>
RgbName(collection_id) == <<collection_id, "_rgb_byte_image.tif">>

\* collection_id_to_files: the keys in insertion order, and the records.
NoCollections == [keys |-> <<>>, val |-> EmptyDict]

\* Lines 108-156: the configuration, the working directory, the walks of the
\* imagery and rpc directories, and the prefixes of the NTF files.
Discover ==
    /\ pc = "start"
    /\ LET r == create_working_dir(cfg_work_dir, imagery_dir, cwd, clock, dirs)
           ntf == SelectPaths(tree, "img", "ntf")
       IN  /\ dirs' = r.dirs
           /\ IF r.kind = "raise"
              THEN /\ pc' = "failed" /\ exc' = r.exc
                   /\ UNCHANGED <<working_dir, ntf_fpaths, info_fpaths, rpc_fpaths, prefixes>>
              ELSE /\ working_dir' = r.value
                   /\ ntf_fpaths' = ntf
                   /\ info_fpaths' = SelectPaths(tree, "img", "tar")
                   /\ rpc_fpaths' = SelectPaths(tree, "rpc", "rpc")
                   /\ prefixes' = SelectIds(set_order,
                                            {PrefixOf(ntf[n]) : n \in 1..Len(ntf)} \ {""})
                   /\ pc' = IF prefixes' = <<>> THEN "generate_dsm" ELSE "classify"
                   /\ exc' = exc
    /\ UNCHANGED <<coll, incomplete_ids, pos, loc, lowest_angle,
                   most_nadir_collection_id, calls>>
    /\ UNCHANGED <<cfg_work_dir, imagery_dir, cwd, clock, wd_out>>
    /\ UNCHANGED <<tree, set_order, obliquity, aoi_name>>
    /\ UNCHANGED <<utmVars, offVars, boxVars, layerVars>>

\* The record of a prefix after the three classify_fpaths calls.
Classified(prefix) ==
    classify_fpaths(prefix, info_fpaths, 1,
        classify_fpaths(prefix, rpc_fpaths, 1,
            classify_fpaths(prefix, ntf_fpaths, 1, NewRecord, "image"),
            "rpc"),
        "info")

\* Lines 161-186, one pass of the loop: the record of prefixes[pos] is made and
\* filled, and deleted again when a modality is incomplete.
ClassifyStep ==
    /\ pc = "classify"
    /\ LET prefix == prefixes[pos]
           rec == Classified(prefix)
       IN  IF Complete(rec)
           THEN /\ coll' = [keys |-> Append(coll.keys, prefix),
                            val |-> Put(coll.val, prefix, rec)]
                /\ UNCHANGED incomplete_ids
           ELSE /\ incomplete_ids' = Append(incomplete_ids, prefix)
                /\ UNCHANGED coll
    /\ IF pos = Len(prefixes)
       THEN pc' = "generate_dsm" /\ pos' = 1
       ELSE pc' = "classify" /\ pos' = pos + 1
    /\ UNCHANGED <<exc, working_dir, ntf_fpaths, info_fpaths, rpc_fpaths, prefixes,
                   loc, lowest_angle, most_nadir_collection_id, calls>>
    /\ UNCHANGED <<envVars, wdVars, utmVars, offVars, boxVars, layerVars>>

\* A call of a stage's main: it returns, and main goes on with what it
\* assigns after the call, or it raises, and main ends with the exception.
RunStage(invocation, locBefore, collAfter, nextPc, nextK) ==
    /\ \E ok \in BOOLEAN :
          /\ calls' = Append(calls, [invocation EXCEPT !.ok = ok])
          /\ IF ok
             THEN coll' = collAfter /\ pc' = nextPc /\ pos' = nextK /\ exc' = exc
             ELSE coll' = coll /\ pc' = "failed" /\ pos' = pos /\ exc' = "StageFailure"
    /\ loc' = locBefore
    /\ UNCHANGED <<working_dir, ntf_fpaths, info_fpaths, rpc_fpaths, prefixes,
                   incomplete_ids, lowest_angle, most_nadir_collection_id>>
    /\ UNCHANGED <<envVars, wdVars, utmVars, offVars, boxVars, layerVars>>

\* Lines 192-198
GenerateDsm ==
    /\ pc = "generate_dsm"
    /\ LET dsm_file == PathJoin(working_dir, DsmName(aoi_name))
       IN  RunStage(Invocation("generate_dsm", "", "", <<dsm_file>>),
                    [loc EXCEPT !.dsm_file = dsm_file], coll, "fit_dtm", pos)

\* Lines 204-208
FitDtm ==
    /\ pc = "fit_dtm"
    /\ LET dtm_file == PathJoin(working_dir, DtmName(aoi_name))
       IN  RunStage(Invocation("fit_dtm", "", "", <<dtm_file>>),
                    [loc EXCEPT !.dtm_file = dtm_file], coll,
                    IF coll.keys = <<>> THEN "segment_by_height" ELSE "orthorectify_pan",
                    1)

\* Lines 217-242, one pass of the loop, first half and second half: the
\* collection's pan image, then its msi image.
Orthorectify(modality, nextPc, nextK) ==
    LET collection_id == coll.keys[pos]
        files == coll.val[collection_id]
        ortho_img_fpath == PathJoin(working_dir, OrthoName(files[modality]["image"]))
    IN  RunStage(Invocation("orthorectify", collection_id, modality, <<ortho_img_fpath>>),
                 loc,
                 [coll EXCEPT !.val[collection_id][modality] =
                     Put(files[modality], "ortho_img_fpath", ortho_img_fpath)],
                 nextPc, nextK)

OrthorectifyPan ==
    /\ pc = "orthorectify_pan"
    /\ Orthorectify("pan", "orthorectify_msi", pos)

\* As OrthorectifyMsi, each collection pansharpened as soon as its own two
\* images are orthorectified.
OrthorectifyMsiThenPansharpen ==
    /\ pc = "orthorectify_msi"
    /\ Orthorectify("msi", "pansharpen", pos)

OrthorectifyMsi ==
    /\ pc = "orthorectify_msi"
    /\ IF pos = Len(coll.keys)
       THEN Orthorectify("msi", "pansharpen", 1)
       ELSE Orthorectify("msi", "orthorectify_pan", pos + 1)

\* Lines 258-272, one pass of the loop: subprocess.run without check, the
\* path recorded, the obliquity angle read from the pan image's metadata.
Pansharpen ==
    /\ pc = "pansharpen"
    /\ LET collection_id == coll.keys[pos]
           output == PathJoin(working_dir, PansharpenedName(collection_id))
           angle == obliquity[collection_id]
           call == Invocation("gdal_pansharpen.py", collection_id, "", <<output>>)
       IN  \E status \in {"zero", "nonzero", "not started"} :
              /\ calls' = Append(calls, [call EXCEPT !.ok = (status = "zero")])
              /\ IF status = "not started"
                 THEN /\ pc' = "failed" /\ exc' = "FileNotFoundError"
                      /\ UNCHANGED <<coll, pos, lowest_angle, most_nadir_collection_id>>
                 ELSE /\ coll' = [coll EXCEPT !.val[collection_id].pansharpened_fpath = output]
                      /\ IF IsLower(angle, lowest_angle)
                         THEN /\ lowest_angle' = Num(angle)
                              /\ most_nadir_collection_id' = collection_id
                         ELSE UNCHANGED <<lowest_angle, most_nadir_collection_id>>
                      /\ IF pos = Len(coll.keys)
                         THEN pc' = "msi_to_rgb" /\ pos' = 1
                         ELSE pc' = "pansharpen" /\ pos' = pos + 1
                      /\ exc' = exc
    /\ UNCHANGED <<working_dir, ntf_fpaths, info_fpaths, rpc_fpaths, prefixes,
                   incomplete_ids, loc>>
    /\ UNCHANGED <<envVars, wdVars, utmVars, offVars, boxVars, layerVars>>

\* Lines 280-286, one pass of the loop.
MsiToRgb ==
    /\ pc = "msi_to_rgb"
    /\ LET collection_id == coll.keys[pos]
           rgb_image_fpath == PathJoin(working_dir, RgbName(collection_id))
       IN  RunStage(Invocation("msi_to_rgb", collection_id, "", <<rgb_image_fpath>>),
                    loc,
                    [coll EXCEPT !.val[collection_id].rgb_fpath = rgb_image_fpath],
                    IF pos = Len(coll.keys) THEN "segment_by_height" ELSE "msi_to_rgb",
                    IF pos = Len(coll.keys) THEN 1 ELSE pos + 1)

\* collection_id_to_files[most_nadir_collection_id] raises KeyError for a key
\* the dict does not hold.
LookupFails == most_nadir_collection_id \notin Range(coll.keys)

\* Line 298 when the lookup fails.
MostNadirKeyError ==
    /\ pc = "segment_by_height"
    /\ LookupFails
    /\ pc' = "failed" /\ exc' = "KeyError"
    /\ UNCHANGED <<working_dir, ntf_fpaths, info_fpaths, rpc_fpaths, prefixes, coll,
                   incomplete_ids, pos, loc, lowest_angle, most_nadir_collection_id, calls>>
    /\ UNCHANGED <<envVars, wdVars, utmVars, offVars, boxVars, layerVars>>

\* Lines 298-316
SegmentByHeight ==
    /\ pc = "segment_by_height"
    /\ ~LookupFails
    /\ LET ndvi == PathJoin(working_dir, <<"ndvi.tif">>)
           mask == PathJoin(working_dir, <<"threshold_CLS.tif">>)
       IN  RunStage(Invocation("segment_by_height", "", "", <<mask, ndvi>>),
                    [loc EXCEPT
                       !.most_nadir_pan_fpath =
                           coll.val[most_nadir_collection_id].pansharpened_fpath,
                       !.ndvi_output_fpath = ndvi,
                       !.threshold_output_mask_fpath = mask],
                    coll, "kwsemantic_segment", pos)

\* Lines 326-337
KwsemanticSegment ==
    /\ pc = "kwsemantic_segment"
    /\ RunStage(Invocation("kwsemantic_segment", "", "", <<>>),
                [loc EXCEPT !.most_nadir_rgb_fpath =
                                coll.val[most_nadir_collection_id].rgb_fpath],
                coll, "building_segmentation", pos)

\* Lines 348-357
BuildingSegmentation ==
    /\ pc = "building_segmentation"
    /\ RunStage(Invocation("building_segmentation", "", "", <<>>),
                loc, coll, "material_classifier", pos)

\* Lines 367-386
MaterialClassifier ==
    /\ pc = "material_classifier"
    /\ RunStage(Invocation("material_classifier", "", "", <<>>),
                loc, coll, "roof_geon_extraction", pos)

\* Lines 396-407
RoofGeonExtraction ==
    /\ pc = "roof_geon_extraction"
    /\ RunStage(Invocation("roof_geon_extraction", "", "", <<>>),
                loc, coll, "buildings_to_dsm", pos)

\* Lines 422-429
BuildingsToDsm ==
    /\ pc = "buildings_to_dsm"
    /\ LET output_dsm == PathJoin(working_dir, <<"buildings_to_dsm_DSM.tif">>)
       IN  RunStage(Invocation("buildings_to_dsm", "", "", <<output_dsm>>),
                    [loc EXCEPT !.output_dsm = output_dsm], coll,
                    "buildings_to_dsm_cls", pos)

\* Lines 432-440
BuildingsToDsmCls ==
    /\ pc = "buildings_to_dsm_cls"
    /\ LET output_cls == PathJoin(working_dir, <<"buildings_to_dsm_CLS.tif">>)
       IN  RunStage(Invocation("buildings_to_dsm --render_cls", "", "", <<output_cls>>),
                    [loc EXCEPT !.output_cls = output_cls], coll, "done", pos)

----------------------------------------------------------------------------
(* The imagery trees and configurations main is run on.                    *)

IdSeq == <<"01JAN15000001", "02FEB15000002", "03MAR15000003">>

\* The files a collection can have: modality and kind.
SlotSeq ==
    << <<"pan", "image">>, <<"msi", "image">>, <<"swir", "image">>,
       <<"pan", "info">>,  <<"msi", "info">>,
       <<"pan", "rpc">>,   <<"msi", "rpc">> >>

Slots == Range(SlotSeq)
RequiredSlots == Slots \ {<<"swir", "image">>}

ImageryDir == <<"/", "d", "/", "i">>
RpcDir == <<"/", "d", "/", "r">>

Extension(kind) ==
    CASE kind = "image" -> "NTF" [] kind = "info" -> "tar" [] kind = "rpc" -> "rpc"

\* The file of a collection's slot, under the directory whose walk finds it.
FileOfSlot(id, slot) ==
    [root |-> IF slot[2] = "rpc" THEN "rpc" ELSE "img",
     path |-> PathJoin(IF slot[2] = "rpc" THEN RpcDir ELSE ImageryDir,
                       <<id, Marker(slot[1]), "P001", ".", Extension(slot[2])>>)]

\* The files of have[id] for each id, in the order the walks list them.
RECURSIVE TreeFrom(_, _)
TreeFrom(have, n) ==
    IF n > Len(IdSeq) * Len(SlotSeq) THEN <<>>
    ELSE LET id == IdSeq[((n - 1) \div Len(SlotSeq)) + 1]
             slot == SlotSeq[((n - 1) % Len(SlotSeq)) + 1]
         IN  (IF slot \in have[id] THEN <<FileOfSlot(id, slot)>> ELSE <<>>)
             \o TreeFrom(have, n + 1)

\* What a collection has on disk in the runs of the whole pipeline: all that
\* is required, all but the msi metadata archive, or nothing.
Shapes == {RequiredSlots, RequiredSlots \ {<<"msi", "info">>}, {}}

MainTrees == {TreeFrom(have, 1) : have \in [Ids -> Shapes]}

\* In the runs of the classification alone: any files of two collections.
ClassifyTrees ==
    {TreeFrom(have, 1) :
        have \in {h \in [Ids -> SUBSET Slots] : h[IdSeq[3]] = {}}}

\* The orders list(set(...)) can give the prefixes.
Orders == {s \in [1..Len(IdSeq) -> Ids] : Range(s) = Ids}

\* Obliquity angles are whole numbers from 1 to MaxAngle.
MaxAngle == 2
Angles == 1..MaxAngle

MainWorkDirs == { <<"/", "d", "/", "w">>, <<>>, <<"/", "d", "/", "i", "/", "w">> }

MainIdle ==
    /\ pc = "idle" /\ exc = "none" /\ working_dir = <<>>
    /\ ntf_fpaths = <<>> /\ info_fpaths = <<>> /\ rpc_fpaths = <<>> /\ prefixes = <<>>
    /\ coll = NoCollections /\ incomplete_ids = <<>> /\ pos = 1 /\ loc = NoLocals
    /\ lowest_angle = Inf /\ most_nadir_collection_id = "" /\ calls = <<>>
    /\ tree = <<>> /\ set_order = <<>> /\ obliquity = EmptyDict /\ aoi_name = ""

\* main before its first statement; lowest_angle and most_nadir_collection_id
\* hold what lines 256-257 give them, nothing reads them earlier.
MainStart ==
    /\ pc = "start" /\ exc = "none" /\ working_dir = <<>>
    /\ ntf_fpaths = <<>> /\ info_fpaths = <<>> /\ rpc_fpaths = <<>> /\ prefixes = <<>>
    /\ coll = NoCollections /\ incomplete_ids = <<>> /\ pos = 1 /\ loc = NoLocals
    /\ lowest_angle = Inf /\ most_nadir_collection_id = "" /\ calls = <<>>
    /\ imagery_dir = ImageryDir
    /\ cwd = <<"/", "d">>
    /\ clock = "1541145600"
    /\ dirs = Ancestors(RealComps(ImageryDir, cwd)) \cup {RpcDir}
    /\ wd_out = Idle
    /\ aoi_name = "D1"
    /\ UtmIdle /\ OffIdle /\ BoxIdle /\ LayerIdle

----------------------------------------------------------------------------
(* Specifications, one per part of the program.                            *)

InitUtm ==
    /\ lon \in Lons
    /\ lat \in Lats
    /\ utm = Pending
    /\ OffIdle /\ WdIdle /\ BoxIdle /\ MainIdle /\ LayerIdle

InitOffset ==
    /\ file \in Files
    /\ offset \in PriorOffsets
    /\ off_out = Pending
    /\ UtmIdle /\ WdIdle /\ BoxIdle /\ MainIdle /\ LayerIdle

\* The imagery directory and the current directory exist; the working
\* directory may exist already, and so may its parent.
InitWd ==
    /\ cfg_work_dir \in AbsPaths(MaxDepth) \cup RelPaths(MaxDepth - 1) \cup OddPaths \cup {<<>>}
    /\ imagery_dir \in AbsPaths(MaxDepth - 1) \cup {<<"/", "d", "/", "i", "/">>}
    /\ cwd \in {PathText(<<<<"d">>>>), PathText(<<<<"d">>, <<"i">>>>)}
    /\ clock = "1541145600"
    /\ \E have \in 0..2 :
          LET real == RealComps(IF cfg_work_dir = <<>> THEN DefaultWorkingDir(clock)
                                ELSE cfg_work_dir, cwd)
          IN  dirs = Ancestors(RealComps(imagery_dir, cwd))
                     \cup Ancestors(RealComps(cwd, cwd))
                     \cup (IF have = 0 THEN {}
                           ELSE Ancestors(SubSeq(real, 1, Len(real) - (2 - have))))
    /\ wd_out = Pending
    /\ UtmIdle /\ OffIdle /\ BoxIdle /\ MainIdle /\ LayerIdle

InitBox ==
    /\ raster \in Rasters
    /\ bbox = Idle
    /\ mid = None
    /\ zone_out = Pending
    /\ UtmIdle /\ OffIdle /\ WdIdle /\ MainIdle /\ LayerIdle

InitMain ==
    /\ MainStart
    /\ cfg_work_dir \in MainWorkDirs
    /\ tree \in MainTrees
    /\ set_order \in Orders
    /\ obliquity \in [Ids -> Angles]

InitClassify ==
    /\ MainStart
    /\ cfg_work_dir = <<"/", "d", "/", "w">>
    /\ tree \in ClassifyTrees
    /\ set_order \in {<<IdSeq[1], IdSeq[2], IdSeq[3]>>, <<IdSeq[3], IdSeq[2], IdSeq[1]>>}
    /\ obliquity = [id \in Ids |-> 1]

NextUtm == ComputeUtmZone

NextBox == GdalGetUtmZone

SpecBox == InitBox /\ [][NextBox]_vars

SpecUtm == InitUtm /\ [][NextUtm]_vars

NextWd == CreateWorkingDir

SpecWd == InitWd /\ [][NextWd]_vars


InitLayer ==
    /\ vectorFile \in VectorFiles
    /\ geometryType \in GeomTypes
    /\ layer_out = Pending
    /\ UtmIdle /\ OffIdle /\ WdIdle /\ BoxIdle /\ MainIdle

NextLayer == OgrGetLayer

SpecLayer == InitLayer /\ [][NextLayer]_vars

NextOffset == ReadOffset

NextClassify == Discover \/ ClassifyStep

SpecClassify == InitClassify /\ [][NextClassify]_vars

Next ==
    \/ Discover
    \/ ClassifyStep
    \/ GenerateDsm
    \/ FitDtm
    \/ OrthorectifyPan
    \/ OrthorectifyMsi
    \/ Pansharpen
    \/ MsiToRgb
    \/ MostNadirKeyError
    \/ SegmentByHeight
    \/ KwsemanticSegment
    \/ BuildingSegmentation
    \/ MaterialClassifier
    \/ RoofGeonExtraction
    \/ BuildingsToDsm
    \/ BuildingsToDsmCls

Spec == InitMain /\ [][Next]_vars

SpecOffset == InitOffset /\ [][NextOffset]_vars

----------------------------------------------------------------------------
(* read_offset: the claims.                                                *)

\* The number a float literal of FloatLits denotes.
Denotes(t) == (CHOOSE l \in FloatLits : l.text = t).value

\* Is the n-th line of the file an offset line of the axis, in the given form?
IsOffsetLine(n, axis, spaced) ==
    /\ n <= Len(file)
    /\ \E t \in FloatTexts : file[n] = OffsetLine(axis, spaced, t)

\* The float written on such a line.
OffsetOn(n, axis, spaced) ==
    Denotes(CHOOSE t \in FloatTexts : file[n] = OffsetLine(axis, spaced, t))

HeaderIn(spaced) ==
    /\ IsOffsetLine(1, "x", spaced)
    /\ IsOffsetLine(2, "y", spaced)
    /\ IsOffsetLine(3, "z", spaced)

HeaderValues(spaced) ==
    <<OffsetOn(1, "x", spaced), OffsetOn(2, "y", spaced), OffsetOn(3, "z", spaced)>>

(* C7, as stated: for a file whose first three lines are '# x offset: <fx>',  *)
(* '# y offset: <fy>', '# z offset: <fz>' (with a space after the '#'),       *)
(* read_offset sets offset to (fx, fy, fz).                                   *)
C7_SpacedHeaderRead ==
    (off_out # Pending /\ HeaderIn(TRUE)) => offset = HeaderValues(TRUE)

(* C7, amended: for a file whose first three lines are '#x offset: <fx>',     *)
(* '#y offset: <fy>', '#z offset: <fz>' (no space between the '#' and the     *)
(* axis letter), read_offset returns with offset set to (fx, fy, fz).         *)
C7_UnspacedHeaderRead ==
    (off_out # Pending /\ HeaderIn(FALSE)) =>
        /\ off_out.kind = "return"
        /\ offset = HeaderValues(FALSE)

\* C7 witness: the call has run on a file with the three unspaced offset lines
\* and stored three different non-zero values.
C7_Witness ==
    /\ off_out # Pending
    /\ HeaderIn(FALSE)
    /\ offset = <<Dec(125, -1), Dec(-5, 1), Dec(7, 0)>>

\* A well-formed coordinate_system line: numbers in the three offset fields.
WellFormedCS(line) ==
    \E x \in FloatTexts \cup {<<"8">>, <<"9", ".">>} :
    \E y \in FloatTexts \cup {<<"8">>, <<"9", ".">>} :
    \E z \in FloatTexts \cup {<<"8">>, <<"9", ".">>} : line = CSLine(x, y, z)

Line1Matches == reFloat(1, ReadLine(file, 1)).matched
Line2Matches == reFloat(2, ReadLine(file, 2)).matched
Line3Matches == reFloat(3, ReadLine(file, 3)).matched

(* C8, first part: line 8 is consulted if and only if line 1 fails the        *)
(* x-offset pattern; if line 1 matches but line 2 or 3 does not, the offsets  *)
(* matched so far are kept, the rest are 0, and no error is raised; and the   *)
(* result is the one the call gives on a zeroed list.                         *)
C8_CaseSplit ==
    off_out # Pending =>
        /\ off_out.line8 <=> ~Line1Matches
        /\ (Line1Matches /\ ~Line2Matches) =>
               /\ off_out.kind = "return"
               /\ offset = <<OffsetOn(1, "x", FALSE), Zero, Zero>>
        /\ (Line1Matches /\ Line2Matches /\ ~Line3Matches) =>
               /\ off_out.kind = "return"
               /\ offset = <<OffsetOn(1, "x", FALSE), OffsetOn(2, "y", FALSE), Zero>>
        /\ offset = read_offset(file, <<Zero, Zero, Zero>>).offset

(* C8: read_offset follows the two-case rule for every file and every prior   *)
(* content of offset; in particular, if line 1 fails the x-offset pattern and *)
(* line 8 is absent or malformed, the result is (0, 0, 0) and no error is     *)
(* raised.                                                                    *)
C8_TwoCaseRule ==
    /\ C8_CaseSplit
    /\ (off_out # Pending /\ ~Line1Matches /\ ~WellFormedCS(ReadLine(file, 8))) =>
           /\ off_out.kind = "return"
           /\ offset = <<Zero, Zero, Zero>>

----------------------------------------------------------------------------
(* create_working_dir: the claims.                                         *)

\* The working directory the call is about, and the imagery directory, resolved.
WorkComps ==
    RealComps(IF cfg_work_dir = <<>> THEN DefaultWorkingDir(clock) ELSE cfg_work_dir, cwd)
ImageryComps == RealComps(imagery_dir, cwd)

IsPrefixOf(a, b) == Len(a) <= Len(b) /\ SubSeq(b, 1, Len(a)) = a

\* Equal to the imagery directory, or inside it.
WorkInsideImagery == IsPrefixOf(ImageryComps, WorkComps)
\* A directory above the imagery directory.
WorkAboveImagery == IsPrefixOf(WorkComps, ImageryComps) /\ WorkComps # ImageryComps
\* Another directory with the same parent.
WorkBesideImagery ==
    /\ Len(WorkComps) = Len(ImageryComps) /\ Len(WorkComps) > 0
    /\ WorkComps # ImageryComps
    /\ SubSeq(WorkComps, 1, Len(WorkComps) - 1) = SubSeq(ImageryComps, 1, Len(ImageryComps) - 1)

\* The call ran, and the directory existed or could be made.
WdDecided == wd_out # Pending /\ wd_out # Idle /\ wd_out.exc # "FileNotFoundError"

(* C4: create_working_dir raises ValueError when the resolved working        *)
(* directory is equal to or nested inside the resolved imagery directory,    *)
(* and returns normally for every working directory that is a sibling or an  *)
(* ancestor of it, also a sibling whose path has the imagery path as a       *)
(* string prefix.                                                            *)
C4_RejectsExactlyNested ==
    WdDecided =>
        /\ WorkInsideImagery => (wd_out.kind = "raise" /\ wd_out.exc = "ValueError")
        /\ (WorkAboveImagery \/ WorkBesideImagery) => wd_out.kind = "return"

----------------------------------------------------------------------------
(* gdal_bounding_box and gdal_get_utm_zone: the claims.                    *)

\* The raster opens, has no projection, and no geotransform comes from its
\* ground-control points; and the call has run.
NoGeoreference ==
    /\ zone_out # Pending /\ zone_out # Idle
    /\ raster.opens /\ raster.projection = "" /\ raster.gcp_transform = None

(* C10, as stated: when a raster has no projection and no geotransform can   *)
(* be derived from its ground-control points, gdal_bounding_box fails with   *)
(* an error instead of returning a result to its caller, so gdal_get_utm_zone *)
(* ends with that georeference error and never computes a midpoint or zone.  *)
C10_BoundingBoxRaises ==
    NoGeoreference =>
        /\ bbox.kind = "raise"
        /\ zone_out.kind = "raise" /\ zone_out.exc = bbox.exc
        /\ mid = None

(* C10, amended: on such a raster gdal_bounding_box raises nothing and       *)
(* returns None to its caller; gdal_get_utm_zone then ends with the          *)
(* TypeError of unpacking None, and never computes a midpoint or a zone.     *)
C10_BoundingBoxReturnsNone ==
    NoGeoreference =>
        /\ bbox = [kind |-> "return", value |-> None]
        /\ zone_out = [kind |-> "raise", exc |-> "TypeError"]
        /\ mid = None

\* C10 witness: gdal_get_utm_zone has run on a raster without projection and
\* without a geotransform from ground-control points, and has raised.
C10_Witness == NoGeoreference /\ zone_out.kind = "raise"

----------------------------------------------------------------------------
(* main: the claims.                                                       *)

\* Past the classification and validation loop.
Validated == pc \notin {"idle", "start", "classify"} /\ working_dir # <<>>

\* The identifiers discovered: those of the prefixes list.
Discovered == Range(prefixes)

\* The files on disk of a kind, for a collection's modality: those the walks
\* list whose path mentions the identifier and is filed under the modality.
OnDisk(id, modality, kind) ==
    \E n \in 1..Len(tree) :
        /\ tree[n].root = (IF kind = "rpc" THEN "rpc" ELSE "img")
        /\ EndsWithExt(tree[n].path, Lower(Extension(kind)))
        /\ Mentions(tree[n].path, id)
        /\ ModalityOf(tree[n].path) = modality

\* Pan and msi each have image, info and rpc on disk.
HasAllRequired(id) ==
    \A modality \in {"pan", "msi"} : \A kind \in {"image", "info", "rpc"} :
        OnDisk(id, modality, kind)

(* C2: after the classification and validation loop, every discovered        *)
(* identifier is a key of collection_id_to_files if and only if both its pan *)
(* and its msi modality hold all of image, info and rpc; otherwise it has    *)
(* been removed and appended to incomplete_ids.  A swir file never changes   *)
(* whether a collection is kept.                                             *)
C2_KeptIffComplete ==
    Validated =>
        \A id \in Discovered :
            /\ id \in Range(coll.keys) <=> HasAllRequired(id)
            /\ id \in Range(coll.keys) =>
                   \A modality \in {"pan", "msi"} :
                       {"image", "info", "rpc"} \subseteq DOMAIN coll.val[id][modality]
            /\ id \notin Range(coll.keys) <=> id \in Range(incomplete_ids)

\* C2 witness: the loop is over; one collection was kept without any swir
\* file, another was removed although its swir image is there.
C2_Witness ==
    /\ Validated
    /\ \E a \in Range(coll.keys), b \in Range(incomplete_ids) :
          /\ ~OnDisk(a, "swir", "image")
          /\ OnDisk(b, "swir", "image")
          /\ OnDisk(b, "pan", "image") /\ OnDisk(b, "msi", "image")

(* C1: if any stage invocation fails (generate_dsm, fit_dtm, a collection's  *)
(* orthorectification, its pansharpening by the gdal_pansharpen.py           *)
(* subprocess, its RGB conversion, or a later stage), no later stage is      *)
(* invoked and the run ends with a failure.                                  *)
C1_StageFailureAborts ==
    \A n \in 1..Len(calls) :
        ~calls[n].ok => (n = Len(calls) /\ pc = "failed")

\* The pansharpening loop has run over a non-empty mapping.
Pansharpened ==
    /\ coll.keys # <<>>
    /\ \A id \in Range(coll.keys) : coll.val[id].pansharpened_fpath # <<>>

\* The position of a key in the mapping's order.
KeyIndex(id) == CHOOSE n \in 1..Len(coll.keys) : coll.keys[n] = id

(* C5: after the pansharpening loop over a non-empty mapping,                *)
(* most_nadir_collection_id is a key whose obliquity angle is at most that   *)
(* of every other collection, and among the collections of that minimal      *)
(* angle it is the first in the insertion order of the mapping.              *)
C5_MostNadirIsFirstMinimum ==
    Pansharpened =>
        /\ most_nadir_collection_id \in Range(coll.keys)
        /\ \A id \in Range(coll.keys) :
               /\ obliquity[most_nadir_collection_id] <= obliquity[id]
               /\ KeyIndex(id) < KeyIndex(most_nadir_collection_id) =>
                      obliquity[most_nadir_collection_id] < obliquity[id]

\* C5 witness: the loop has run over three collections, inserted in another
\* order than that of their identifiers; the second and the third share the
\* minimal angle and the second was selected.
C5_Witness ==
    /\ Pansharpened
    /\ Len(coll.keys) = 3
    /\ coll.keys[2] = IdSeq[3] /\ coll.keys[3] = IdSeq[1]
    /\ obliquity[coll.keys[2]] = obliquity[coll.keys[3]]
    /\ obliquity[coll.keys[2]] < obliquity[coll.keys[1]]
    /\ most_nadir_collection_id = coll.keys[2]

(* C6: when validation leaves no collection, no stage is invoked on the      *)
(* empty set and the run fails with a no-usable-collections condition, not   *)
(* with the by-product of looking up an empty most-nadir identifier; when a  *)
(* complete collection remains, incomplete collections alone never make the  *)
(* run fail.                                                                 *)
C6_NoCollectionsRejected ==
    /\ (Validated /\ coll.keys = <<>>) =>
           /\ calls = <<>>
           /\ pc = "failed" => exc = "NoUsableCollections"
    /\ (Validated /\ coll.keys # <<>> /\ pc = "failed") =>
           /\ calls # <<>> /\ ~calls[Len(calls)].ok
           /\ exc \in {"StageFailure", "FileNotFoundError"}

\* A name under the working directory.
InWorkingDir(name) == working_dir \o <<"/">> \o name

\* The outputs every invocation of a stage was given are those of Expected.
OutputsOf(stage, Expected(_)) ==
    \A n \in 1..Len(calls) : calls[n].stage = stage => calls[n].outputs = Expected(calls[n])

\* The artifact names that do not belong to orthorectification: the outputs
\* passed, the paths recorded in the collection records and the locals.
C9_OtherNames ==
    /\ OutputsOf("generate_dsm", LAMBDA c : <<InWorkingDir(<<aoi_name, "_P3D_DSM.tif">>)>>)
    /\ OutputsOf("fit_dtm", LAMBDA c : <<InWorkingDir(<<aoi_name, "_DTM.tif">>)>>)
    /\ OutputsOf("gdal_pansharpen.py",
                 LAMBDA c : <<InWorkingDir(<<c.id, "_ortho_pansharpened.tif">>)>>)
    /\ OutputsOf("msi_to_rgb", LAMBDA c : <<InWorkingDir(<<c.id, "_rgb_byte_image.tif">>)>>)
    /\ OutputsOf("segment_by_height",
                 LAMBDA c : <<InWorkingDir(<<"threshold_CLS.tif">>),
                              InWorkingDir(<<"ndvi.tif">>)>>)
    /\ OutputsOf("buildings_to_dsm",
                 LAMBDA c : <<InWorkingDir(<<"buildings_to_dsm_DSM.tif">>)>>)
    /\ OutputsOf("buildings_to_dsm --render_cls",
                 LAMBDA c : <<InWorkingDir(<<"buildings_to_dsm_CLS.tif">>)>>)
    /\ \A id \in Range(coll.keys) :
          /\ coll.val[id].pansharpened_fpath
                \in {<<>>, InWorkingDir(<<id, "_ortho_pansharpened.tif">>)}
          /\ coll.val[id].rgb_fpath \in {<<>>, InWorkingDir(<<id, "_rgb_byte_image.tif">>)}
    /\ loc.dsm_file \in {<<>>, InWorkingDir(<<aoi_name, "_P3D_DSM.tif">>)}
    /\ loc.dtm_file \in {<<>>, InWorkingDir(<<aoi_name, "_DTM.tif">>)}
    /\ loc.ndvi_output_fpath \in {<<>>, InWorkingDir(<<"ndvi.tif">>)}
    /\ loc.threshold_output_mask_fpath \in {<<>>, InWorkingDir(<<"threshold_CLS.tif">>)}
    /\ loc.output_dsm \in {<<>>, InWorkingDir(<<"buildings_to_dsm_DSM.tif">>)}
    /\ loc.output_cls \in {<<>>, InWorkingDir(<<"buildings_to_dsm_CLS.tif">>)}

\* The orthorectified images, passed and recorded, are named by Name(id, modality).
C9_OrthoNames(Name(_, _)) ==
    /\ OutputsOf("orthorectify", LAMBDA c : <<InWorkingDir(Name(c.id, c.modality))>>)
    /\ \A id \in Range(coll.keys) : \A modality \in {"pan", "msi"} :
          "ortho_img_fpath" \in DOMAIN coll.val[id][modality] =>
              coll.val[id][modality]["ortho_img_fpath"] = InWorkingDir(Name(id, modality))

(* C9, as stated: every artifact path main passes to a stage as an output    *)
(* and records is the working directory joined with the name the convention  *)
(* fixes from the AOI name or the collection identifier alone, the           *)
(* orthorectified images being '<collectionId>_ortho.tif'.                   *)
C9_NamesFromIdAlone ==
    /\ C9_OtherNames
    /\ C9_OrthoNames(LAMBDA id, modality : <<id, "_ortho.tif">>)

(* C9, amended: the same, except that an orthorectified image is named after *)
(* its source image: the source file's name without its extension, then      *)
(* '_ortho.tif' (here '<collectionId><marker>P001_ortho.tif', different for  *)
(* the pan and the msi image of a collection).                               *)
C9_NamesByConvention ==
    /\ C9_OtherNames
    /\ C9_OrthoNames(LAMBDA id, modality : <<id, Marker(modality), "P001", "_ortho.tif">>)

\* C9 witness: a run over two or more collections is done and every artifact
\* path is recorded.
C9_Witness ==
    /\ pc = "done"
    /\ Len(coll.keys) >= 2
    /\ loc.output_cls # <<>> /\ loc.dsm_file # <<>>
    /\ \A id \in Range(coll.keys) :
          /\ coll.val[id].rgb_fpath # <<>>
          /\ "ortho_img_fpath" \in DOMAIN coll.val[id].pan
          /\ "ortho_img_fpath" \in DOMAIN coll.val[id].msi

----------------------------------------------------------------------------
(* C3: for every longitude argument and every latitude in [-80, 84),       *)
(* compute_utm_zone returns, with a zone in 1..60 and hemisphere 'N'       *)
(* exactly when the normalized latitude is positive; for a latitude        *)
(* outside that band it raises and never returns zone 0.                   *)
C3_ZoneInRange ==
    utm # Pending =>
        IF Deg(-80) <= lat /\ lat < Deg(84)
        THEN /\ utm.kind = "return"
             /\ utm.zone \in 1..60
             /\ utm.hemisphere = (IF NormLat(lat) > 0 THEN "N" ELSE "S")
        ELSE utm.kind = "raise"

----------------------------------------------------------------------------
(* main: the order of the stages.                                          *)

\* The place of a stage in the order of main's text.
StageRank(stage) ==
    CASE stage = "generate_dsm" -> 1
      [] stage = "fit_dtm" -> 2
      [] stage = "orthorectify" -> 3
      [] stage = "gdal_pansharpen.py" -> 4
      [] stage = "msi_to_rgb" -> 5
      [] stage = "segment_by_height" -> 6
      [] stage = "kwsemantic_segment" -> 7
      [] stage = "building_segmentation" -> 8
      [] stage = "material_classifier" -> 9
      [] stage = "roof_geon_extraction" -> 10
      [] stage = "buildings_to_dsm" -> 11
      [] stage = "buildings_to_dsm --render_cls" -> 12

PerCollection == {"orthorectify", "gdal_pansharpen.py", "msi_to_rgb"}

\* The invocation has come back to main: a stage's main has returned, the
\* gdal_pansharpen.py process has ended (with whatever status).
Completed(n) ==
    calls[n].ok \/ (calls[n].stage = "gdal_pansharpen.py" /\ n < Len(calls))

\* Before the n-th invocation, the stage has completed for the collection (and
\* modality).
DoneBefore(n, stage, id, modality) ==
    \E m \in 1..(n - 1) :
        /\ calls[m].stage = stage /\ calls[m].id = id /\ calls[m].modality = modality
        /\ Completed(m)

(* C11: the stages are invoked in the order generate_dsm, fit_dtm,           *)
(* orthorectify, gdal_pansharpen.py, msi_to_rgb, segment_by_height,          *)
(* kwsemantic_segment, building_segmentation, material_classifier,           *)
(* roof_geon_extraction, buildings_to_dsm, buildings_to_dsm --render_cls,    *)
(* each invocation completed before the next is made; every kept             *)
(* collection's pan and msi orthorectification has completed before any      *)
(* pansharpening starts, every pansharpening before any RGB conversion, and  *)
(* every RGB conversion before segment_by_height.                            *)
C11_StagesInOrder ==
    /\ \A a \in 1..Len(calls) : \A b \in (a + 1)..Len(calls) :
          /\ StageRank(calls[a].stage) <= StageRank(calls[b].stage)
          /\ calls[a].stage = calls[b].stage => calls[a].stage \in PerCollection
          /\ Completed(a)
    /\ \A n \in 1..Len(calls) : \A id \in Range(coll.keys) :
          /\ calls[n].stage = "gdal_pansharpen.py" =>
                /\ DoneBefore(n, "orthorectify", id, "pan")
                /\ DoneBefore(n, "orthorectify", id, "msi")
          /\ calls[n].stage = "msi_to_rgb" =>
                DoneBefore(n, "gdal_pansharpen.py", id, "")
          /\ calls[n].stage = "segment_by_height" =>
                DoneBefore(n, "msi_to_rgb", id, "")

\* C11 witness: a run over two or more collections has made the last of the
\* twelve kinds of invocation.
C11_Witness ==
    /\ pc = "done"
    /\ Len(coll.keys) >= 2
    /\ {StageRank(calls[n].stage) : n \in 1..Len(calls)} = 1..12
    /\ Len(calls) = 9 + 4 * Len(coll.keys)

----------------------------------------------------------------------------
(* compute_utm_zone: the reference rule.                                   *)

\* floor(l) in whole degrees, l in 1/Scale of a degree (\div rounds down).
FloorDeg(l) == l \div Scale

\* The rule, on the arguments as given.
ReferenceZone(l, p) ==
    IF Deg(72) <= p /\ p < Deg(84) /\ 0 <= l /\ l < Deg(42)
    THEN IF l < Deg(9) THEN 31
         ELSE IF l < Deg(21) THEN 33
         ELSE IF l < Deg(33) THEN 35
         ELSE 37
    ELSE IF Deg(56) <= p /\ p < Deg(64) /\ 0 <= l /\ l < Deg(12)
    THEN IF l < Deg(3) THEN 31 ELSE 32
    ELSE ((FloorDeg(l) + 180) \div 6) + 1

(* C12: for every longitude in (-180, 180], negative and non-integer ones    *)
(* included, and every latitude in [-80, 84], compute_utm_zone returns the   *)
(* zone of the reference rule: the two exception areas, and otherwise        *)
(* floor((floor(longitude) + 180) / 6) + 1.                                  *)
C12_ZoneIsReference ==
    (/\ utm # Pending
     /\ Deg(-180) < lon /\ lon <= Deg(180)
     /\ Deg(-80) <= lat /\ lat <= Deg(84))
    => (utm.kind = "return" /\ utm.zone = ReferenceZone(lon, lat))

\* The same for the longitudes that are whole degrees or not negative, short
\* of 180, and the latitudes short of 84.
C12_ZoneIsReferenceWhereTruncationIsFloor ==
    (/\ utm # Pending
     /\ Deg(-180) < lon /\ lon < Deg(180)
     /\ (lon >= 0 \/ lon % Scale = 0)
     /\ Deg(-80) <= lat /\ lat < Deg(84))
    => (utm.kind = "return" /\ utm.zone = ReferenceZone(lon, lat))

\* The zone returned for a negative longitude that is no whole degree is that
\* of the rule with the longitude rounded toward zero.
C12_NegativeFractionRoundsTowardZero ==
    (/\ utm # Pending
     /\ Deg(-180) < lon /\ lon < 0 /\ lon % Scale # 0
     /\ Deg(-80) <= lat /\ lat < Deg(84))
    => (/\ utm.kind = "return"
        /\ utm.zone = ((FloorDeg(lon) + 1 + 180) \div 6) + 1)

----------------------------------------------------------------------------
(* ogr_get_layer: the claims.                                              *)

\* The layers of the requested type.
Matching == {n \in 1..Len(vectorFile) : vectorFile[n] = geometryType}

LayerDecided == layer_out # Pending /\ layer_out # Idle

(* C13: ogr_get_layer returns a layer only if that layer's geometry type     *)
(* is the requested one, and then the first such layer by index; when no     *)
(* layer of the file has the requested type, a file without layers           *)
(* included, it raises RuntimeError and returns no layer of another type.    *)
C13_OnlyRequestedType ==
    LayerDecided =>
        IF Matching # {}
        THEN /\ layer_out.kind = "return"
             /\ layer_out.layer \in Matching
             /\ \A n \in Matching : layer_out.layer <= n
        ELSE layer_out.kind = "raise" /\ layer_out.exc = "RuntimeError"

\* When a layer has the requested type, the first such layer is returned.
C13_FirstMatchReturned ==
    (LayerDecided /\ Matching # {}) =>
        /\ layer_out.kind = "return"
        /\ layer_out.layer \in Matching
        /\ \A n \in Matching : layer_out.layer <= n

\* When none has, the last layer is returned, or, of a file without layers,
\* UnboundLocalError is raised; RuntimeError never is.
C13_NoMatchReturnsLast ==
    (LayerDecided /\ Matching = {}) =>
        IF vectorFile = <<>>
        THEN layer_out.kind = "raise" /\ layer_out.exc = "UnboundLocalError"
        ELSE layer_out.kind = "return" /\ layer_out.layer = Len(vectorFile)

----------------------------------------------------------------------------
(* create_working_dir: what a rejected call leaves behind.                 *)

\* The call ends with the ValueError of the subdirectory test.
RejectedStep ==
    /\ wd_out = Pending
    /\ wd_out'.kind = "raise" /\ wd_out'.exc = "ValueError"

(* C14: a call of create_working_dir that is rejected with ValueError        *)
(* leaves the file system as it was: it has created no directory, so no      *)
(* new directory is left inside the imagery tree.                            *)
C14_RejectionCreatesNothing == [][RejectedStep => dirs' = dirs]_vars

\* A rejected call leaves the working directory in place, made by the call
\* when it was not there before.
C14_RejectionLeavesWorkingDir ==
    [][RejectedStep =>
          /\ PathText(WorkComps) \in dirs'
          /\ dirs' = dirs \cup {PathText(WorkComps)}]_vars

====
